---- MODULE Spec2Model ----
(***************************************************************************)
(* Model of src/src/App.jsx: the mutation contextualiser.                  *)
(*                                                                         *)
(* A JavaScript string is modelled as a sequence of one-character strings, *)
(* so that trim, split, toUpperCase, the regular expression and the        *)
(* template literals are computed character by character.                  *)
(***************************************************************************)
EXTENDS Integers, Sequences, FiniteSets

(***************************************************************************)
(* Bounds of the model (inputs the two textareas may hold).                *)
(***************************************************************************)
\* Longest reference text typed into the FASTA textarea.
MaxFastaLen == 3
\* Largest number of comma-separated pieces in the mutations textarea.
MaxPieces == 2

\* Characters typed into the FASTA textarea: two bases (one of them lower
\* case), a line break, and the header mark, which is an ordinary character
\* when it does not start a line.
FastaChars == {"A", "c", "\n", ">"}

\* The bases among them.
BaseChars == {"A", "c"}

\* Pieces typed between commas in the mutations textarea.
Pieces ==
  { <<" ">>,                       \* white space only
    <<"A", "2", "C">>,             \* well formed
    <<" ", "c", "1", "a">>,        \* lower case after a blank, first position
    <<"A", "2", "A">>,             \* ref = alt
    <<"A", "0", "0", "C">>,        \* two digits, position 0
    <<"X", "1", "A">> }            \* not a base letter

(***************************************************************************)
(* JavaScript string primitives used by the program.                       *)
(***************************************************************************)
WhiteSpace == {" ", "\n", "\t", "\r"}

Digit == {"0", "1", "2", "3", "4", "5", "6", "7", "8", "9"}

\* String.prototype.toUpperCase, one character.
toUpperChar(c) ==
  CASE c = "a" -> "A"
    [] c = "c" -> "C"
    [] c = "g" -> "G"
    [] c = "t" -> "T"
    [] c = "n" -> "N"
    [] c = "x" -> "X"
    [] OTHER   -> c

\* String.prototype.toUpperCase.
toUpperCase(s) == [i \in 1..Len(s) |-> toUpperChar(s[i])]

\* String.prototype.trim: white space removed at both ends only.
trim(s) ==
  LET keep == {i \in 1..Len(s) : s[i] \notin WhiteSpace}
  IN  IF keep = {} THEN <<>>
      ELSE LET lo == CHOOSE i \in keep : \A j \in keep : i <= j
               hi == CHOOSE i \in keep : \A j \in keep : j <= i
           IN  SubSeq(s, lo, hi)

\* String.prototype.split on a one-character separator: always at least one
\* piece, the empty string splitting into one empty piece.
RECURSIVE split(_, _)
split(s, sep) ==
  LET at == {i \in 1..Len(s) : s[i] = sep}
  IN  IF at = {} THEN <<s>>
      ELSE LET k == CHOOSE i \in at : \A j \in at : i <= j
           IN  <<SubSeq(s, 1, k - 1)>> \o split(SubSeq(s, k + 1, Len(s)), sep)

\* String.prototype.startsWith for a one-character prefix.
startsWith(s, c) == Len(s) > 0 /\ s[1] = c

\* parseInt(digits, 10) on a run of decimal digits.
RECURSIVE parseInt(_)
parseInt(ds) ==
  IF ds = <<>> THEN 0
  ELSE LET d == ds[Len(ds)]
           v == CASE d = "0" -> 0 [] d = "1" -> 1 [] d = "2" -> 2 [] d = "3" -> 3
                  [] d = "4" -> 4 [] d = "5" -> 5 [] d = "6" -> 6 [] d = "7" -> 7
                  [] d = "8" -> 8 [] d = "9" -> 9
       IN  10 * parseInt(SubSeq(ds, 1, Len(ds) - 1)) + v

\* The decimal digits in order.
DigitChars == <<"0", "1", "2", "3", "4", "5", "6", "7", "8", "9">>

\* `${n}` for a non-negative integer: its decimal digits.
RECURSIVE numberToString(_)
numberToString(n) ==
  IF n < 10 THEN <<DigitChars[n + 1]>>
  ELSE numberToString(n \div 10) \o <<DigitChars[(n % 10) + 1]>>

(***************************************************************************)
(* The context catalog.                                                    *)
(***************************************************************************)
BASES == <<"A", "C", "G", "T">>

\* `${before}[${ref}>${alt}]${after}`
contextString(before, ref, alt, after) ==
  <<before, "[", ref, ">", alt, "]", after>>

\* for (const after of BASES) contexts.push(...)
afterLoop(before, ref, alt) ==
  [f \in 1..Len(BASES) |-> contextString(before, ref, alt, BASES[f])]

\* for (const alt of BASES) if (ref !== alt) ..., from the a-th base on.
RECURSIVE altLoop(_, _, _)
altLoop(before, ref, a) ==
  IF a > Len(BASES) THEN <<>>
  ELSE (IF ref # BASES[a] THEN afterLoop(before, ref, BASES[a]) ELSE <<>>)
         \o altLoop(before, ref, a + 1)

\* for (const ref of BASES) ..., from the r-th base on.
RECURSIVE refLoop(_, _)
refLoop(before, r) ==
  IF r > Len(BASES) THEN <<>>
  ELSE altLoop(before, BASES[r], 1) \o refLoop(before, r + 1)

\* for (const before of BASES) ..., from the b-th base on.
RECURSIVE beforeLoop(_)
beforeLoop(b) ==
  IF b > Len(BASES) THEN <<>>
  ELSE refLoop(BASES[b], 1) \o beforeLoop(b + 1)

generateAllContexts == beforeLoop(1)

ALL_CONTEXTS == generateAllContexts

(***************************************************************************)
(* The parsers and the contextualiser.                                     *)
(***************************************************************************)
\* The for loop of parseFasta over the lines.
RECURSIVE parseFastaLines(_, _)
parseFastaLines(lines, sequence) ==
  IF lines = <<>> THEN sequence
  ELSE LET trimmed == trim(Head(lines))
       IN  parseFastaLines(Tail(lines),
             IF ~startsWith(trimmed, ">")
             THEN sequence \o toUpperCase(trimmed)
             ELSE sequence)

parseFasta(text) == parseFastaLines(split(trim(text), "\n"), <<>>)

\* What parseMutation returns when the pattern does not match.
null == [null |-> TRUE]

BaseLetters == {BASES[i] : i \in 1..Len(BASES)}

\* trimmed.match(/^([ACGT])(\d+)([ACGT])$/)
matchMutation(trimmed) ==
  /\ Len(trimmed) >= 3
  /\ trimmed[1] \in BaseLetters
  /\ \A i \in 2..(Len(trimmed) - 1) : trimmed[i] \in Digit
  /\ trimmed[Len(trimmed)] \in BaseLetters

parseMutation(mutStr) ==
  LET trimmed == toUpperCase(trim(mutStr))
  IN  IF ~matchMutation(trimmed) THEN null
      ELSE [ref      |-> trimmed[1],
            position |-> parseInt(SubSeq(trimmed, 2, Len(trimmed) - 1)),
            alt      |-> trimmed[Len(trimmed)]]

\* `Position ${position} out of range (sequence length: ${sequence.length})`
outOfRangeMessage(position, length) ==
  <<"Position ", position, " out of range (sequence length: ", length, ")">>

\* `Reference mismatch at position ${position}: expected ${ref}, found ${actualBase}`
mismatchMessage(position, ref, actualBase) ==
  <<"Reference mismatch at position ", position, ": expected ", ref,
    ", found ", actualBase>>

invalidFormatMessage == <<"Invalid mutation format">>

\* Mutant: idx > sequence.length.
outOfRangeOffByOne(idx, sequence) == idx < 0 \/ idx > Len(sequence)

\* idx < 0 || idx >= sequence.length
outOfRange(idx, sequence) == idx < 0 \/ idx >= Len(sequence)

\* What indexing a string outside its length yields.
undefined == "undefined"

\* sequence[idx] with the 0-based idx of the code.
charAt(sequence, idx) ==
  IF idx + 1 \in 1..Len(sequence) THEN sequence[idx + 1] ELSE undefined

\* Mutant: no guard at the first position.
beforeOfNoGuard(sequence, idx) == charAt(sequence, idx - 1)

\* idx > 0 ? sequence[idx - 1] : 'N'
beforeOf(sequence, idx) == IF idx > 0 THEN charAt(sequence, idx - 1) ELSE "N"

\* Mutant: idx < sequence.length.
afterOfOffByOne(sequence, idx) ==
  IF idx < Len(sequence) THEN charAt(sequence, idx + 1) ELSE "N"

\* idx < sequence.length - 1 ? sequence[idx + 1] : 'N'
afterOf(sequence, idx) ==
  IF idx < Len(sequence) - 1 THEN charAt(sequence, idx + 1) ELSE "N"

contextualiseMutation(sequence, mutation) ==
  LET ref      == mutation.ref
      position == mutation.position
      alt      == mutation.alt
      idx      == position - 1
  IN  IF outOfRange(idx, sequence)
      THEN [error |-> outOfRangeMessage(position, Len(sequence))]
      ELSE LET actualBase == charAt(sequence, idx)
           IN  IF actualBase # ref
               THEN [error |-> mismatchMessage(position, ref, actualBase)]
               ELSE LET before == beforeOf(sequence, idx)
                        after  == afterOf(sequence, idx)
                    IN  [context  |-> contextString(before, ref, alt, after),
                         before   |-> before,
                         ref      |-> ref,
                         alt      |-> alt,
                         after    |-> after,
                         position |-> position]

hasError(r) == "error" \in DOMAIN r

(***************************************************************************)
(* The aggregation (the results memo) and the TSV (the tsvOutput memo).    *)
(***************************************************************************)
\* Mutant: the empty pieces filtered out before the trim.
mutationStringsFilterFirst(m) ==
  LET pieces == SelectSeq(split(m, ","), LAMBDA s : Len(s) > 0)
  IN  [i \in 1..Len(pieces) |-> trim(pieces[i])]

\* mutationsInput.split(',').map(s => s.trim()).filter(s => s.length > 0)
mutationStringsOf(m) ==
  LET pieces  == split(m, ",")
      trimmed == [i \in 1..Len(pieces) |-> trim(pieces[i])]
  IN  SelectSeq(trimmed, LAMBDA s : Len(s) > 0)

\* {} : an object with no keys.
emptyObject == [ctx \in {} |-> 0]

\* Mutant: the initialising loop left out.
initialCountsNotInitialised == emptyObject

\* counts[ctx] = 0 for every ctx of ALL_CONTEXTS
initialCounts == [ctx \in {ALL_CONTEXTS[i] : i \in 1..Len(ALL_CONTEXTS)} |-> 0]

\* Mutant: the count set to 1 instead of incremented.
countContextSetOne(counts, context) ==
  IF context \in DOMAIN counts
  THEN [counts EXCEPT ![context] = 1]
  ELSE counts

\* Mutant: no hasOwnProperty guard, a missing key counting from 0.
countContextNoGuard(counts, context) ==
  [ctx \in DOMAIN counts \cup {context} |->
     IF ctx = context
     THEN (IF ctx \in DOMAIN counts THEN counts[ctx] ELSE 0) + 1
     ELSE counts[ctx]]

\* if (counts.hasOwnProperty(result.context)) counts[result.context]++
countContext(counts, context) ==
  IF context \in DOMAIN counts
  THEN [counts EXCEPT ![context] = @ + 1]
  ELSE counts

\* One pass of the loop body over mutStr.
loopBody(sequence, mutStr, acc) ==
  LET mutation == parseMutation(mutStr)
  IN  IF mutation = null
      THEN [contextualised |->
              Append(acc.contextualised,
                     [original |-> mutStr, error |-> invalidFormatMessage]),
            counts |-> acc.counts]
      ELSE LET result == contextualiseMutation(sequence, mutation)
           IN  IF hasError(result)
               THEN [contextualised |->
                       Append(acc.contextualised,
                              [original |-> mutStr, error |-> result.error]),
                     counts |-> acc.counts]
               ELSE [contextualised |->
                       Append(acc.contextualised,
                              [original |-> mutStr,
                               context  |-> result.context,
                               before   |-> result.before,
                               ref      |-> result.ref,
                               alt      |-> result.alt,
                               after    |-> result.after,
                               position |-> result.position]),
                     counts |-> countContext(acc.counts, result.context)]

\* Mutant: the loop left at the first failing token.
RECURSIVE forEachMutationAbort(_, _, _)
forEachMutationAbort(sequence, mutationStrings, acc) ==
  IF mutationStrings = <<>> THEN acc
  ELSE LET step == loopBody(sequence, Head(mutationStrings), acc)
       IN  IF hasError(step.contextualised[Len(step.contextualised)])
           THEN step
           ELSE forEachMutationAbort(sequence, Tail(mutationStrings), step)

\* for (const mutStr of mutationStrings) { ... }
RECURSIVE forEachMutation(_, _, _)
forEachMutation(sequence, mutationStrings, acc) ==
  IF mutationStrings = <<>> THEN acc
  ELSE forEachMutation(sequence, Tail(mutationStrings),
                       loopBody(sequence, Head(mutationStrings), acc))

\* The loop from its initial accumulators.
processMutations(sequence, mutationStrings) ==
  forEachMutation(sequence, mutationStrings,
                  [contextualised |-> <<>>, counts |-> initialCounts])

\* The body of the results memo.
computeResults(f, m) ==
  LET sequence == parseFasta(f)
  IN  IF sequence = <<>>
      THEN [contextualised |-> <<>>, counts |-> emptyObject]
      ELSE LET done == processMutations(sequence, mutationStringsOf(m))
           IN  [contextualised |-> done.contextualised,
                counts         |-> done.counts,
                sequence       |-> sequence]

\* results.counts[ctx] || 0
countOrZero(counts, ctx) == IF ctx \in DOMAIN counts THEN counts[ctx] ELSE 0

\* Mutant: no `|| 0`, a missing count rendered as it is.
tsvLineNoDefault(counts, ctx) ==
  ctx \o <<"\t">>
    \o (IF ctx \in DOMAIN counts THEN numberToString(counts[ctx])
        ELSE <<"u", "n", "d", "e", "f", "i", "n", "e", "d">>)

\* `${ctx}\t${results.counts[ctx] || 0}`
tsvLine(counts, ctx) == ctx \o <<"\t">> \o numberToString(countOrZero(counts, ctx))

tsvHeader ==
  <<"C", "o", "n", "t", "e", "x", "t", "\t", "C", "o", "u", "n", "t">>

\* The lines array of the tsvOutput memo, before lines.join('\n').
tsvLines(counts) ==
  <<tsvHeader>> \o [i \in 1..Len(ALL_CONTEXTS) |-> tsvLine(counts, ALL_CONTEXTS[i])]

\* lines[lo] + sep + ... + lines[hi], the range halved so that the evaluation
\* stays shallow.
RECURSIVE joinRange(_, _, _, _)
joinRange(lines, sep, lo, hi) ==
  IF lo = hi THEN lines[lo]
  ELSE IF lo + 1 = hi THEN lines[lo] \o sep \o lines[hi]
  ELSE LET mid == (lo + hi) \div 2
       IN  joinRange(lines, sep, lo, mid) \o sep \o joinRange(lines, sep, mid + 1, hi)

\* Array.prototype.join on a one-character separator.
join(lines, sep) ==
  IF lines = <<>> THEN <<>> ELSE joinRange(lines, <<sep>>, 1, Len(lines))

\* The body of the tsvOutput memo.
computeTsv(counts) == join(tsvLines(counts), "\n")

(***************************************************************************)
(* The component: two state cells and two memoised derivations.            *)
(*                                                                         *)
(* The tsvOutput memo holds a text that is a function of the counts object *)
(* it last ran on; the cell is kept as that counts object (tsvMemo) and    *)
(* the text it holds is tsvOutput below.                                   *)
(***************************************************************************)
VARIABLES fastaInput, mutationsInput, results, tsvMemo

vars == <<fastaInput, mutationsInput, results, tsvMemo>>

\* The text the tsvOutput memo holds.
tsvOutput == computeTsv(tsvMemo)

\* Mutant: mutationsInput missing from the dependency array.
resultsDepsFastaOnly(f0, m0, f1, m1) == f0 # f1

\* useMemo(..., [fastaInput, mutationsInput]): the dependencies differ from
\* those of the previous render.
resultsDepsChanged(f0, m0, f1, m1) == f0 # f1 \/ m0 # m1

\* A render after the state cells became f and m.  The results memo runs again
\* when a dependency changed; results.counts is then a new object, so the
\* tsvOutput memo ([results.counts]) runs again on it; otherwise both memos
\* return what they hold.
Render(f, m) ==
  /\ fastaInput' = f
  /\ mutationsInput' = m
  /\ IF resultsDepsChanged(fastaInput, mutationsInput, f, m)
     THEN /\ results' = computeResults(f, m)
          /\ tsvMemo' = results'.counts
     ELSE UNCHANGED <<results, tsvMemo>>

\* useState('') twice, and the first render.
Init ==
  /\ fastaInput = <<>>
  /\ mutationsInput = <<>>
  /\ results = computeResults(<<>>, <<>>)
  /\ tsvMemo = results.counts

\* Values the FASTA textarea can take after one edit: a character typed at the
\* end, or everything deleted.
FastaEdits(f, chars) ==
  {Append(f, c) : c \in {x \in chars : Len(f) < MaxFastaLen}} \cup {<<>>}

\* Number of comma-separated pieces of the text.
pieceCount(m) == IF m = <<>> THEN 0 ELSE Len(split(m, ","))

\* Values the mutations textarea can take after one edit: a piece typed (after
\* a comma when the text is not empty), or everything deleted.
MutationEdits(m) ==
  {(IF m = <<>> THEN p ELSE m \o <<",">> \o p) :
      p \in {x \in Pieces : pieceCount(m) < MaxPieces}} \cup {<<>>}

\* onChange of the FASTA textarea: setFastaInput(e.target.value), then render.
SetFastaInput ==
  \E v \in FastaEdits(fastaInput, FastaChars) : Render(v, mutationsInput)

\* onChange of the mutations textarea: setMutationsInput(e.target.value).
SetMutationsInput ==
  \E v \in MutationEdits(mutationsInput) : Render(fastaInput, v)

Next == SetFastaInput \/ SetMutationsInput

Spec == Init /\ [][Next]_vars

\* The same component with a one-line reference text of bases only.  The TSV
\* depends on the inputs through the CountTable alone, and building its 193
\* lines in every state is what the rendering property costs; this
\* specification reaches the empty table, the all-zero table and tables with
\* counts of 1 and more in fewer states.
SetFastaInputBases ==
  \E v \in FastaEdits(fastaInput, BaseChars) : Render(v, mutationsInput)

TsvNext == SetFastaInputBases \/ SetMutationsInput

TsvSpec == Init /\ [][TsvNext]_vars

(***************************************************************************)
(* Vocabulary of the properties, stated from the specification's words and *)
(* independently of the parsers above.                                     *)
(***************************************************************************)
\* The sequence the reference text parses to.
ParsedSequence == parseFasta(fastaInput)

\* The non-empty (after trimming) comma-separated tokens of the mutations text.
Tokens ==
  LET pieces == split(mutationsInput, ",")
  IN  SelectSeq([i \in 1..Len(pieces) |-> trim(pieces[i])], LAMBDA t : t # <<>>)

Outcomes == results.contextualised

Counts == results.counts

Nucleotides == {"A", "C", "G", "T"}

\* The 192 canonical context strings, as a set.
CanonicalContexts ==
  {<<b, "[", r, ">", a, "]", f>> :
     b \in Nucleotides, r \in Nucleotides, a \in Nucleotides, f \in Nucleotides}
    \ {<<b, "[", r, ">", r, "]", f>> :
         b \in Nucleotides, r \in Nucleotides, f \in Nucleotides}

\* The catalog order: before outermost, then ref, then alt skipping alt = ref,
\* then after, each over A, C, G, T.
CatalogOrder ==
  LET B == <<"A", "C", "G", "T">>
      others(r) == SelectSeq(B, LAMBDA x : x # r)
  IN  [i \in 1..192 |->
         LET k   == i - 1
             ref == B[((k % 48) \div 12) + 1]
         IN  <<B[(k \div 48) + 1], "[", ref, ">",
               others(ref)[((k % 12) \div 4) + 1], "]", B[(k % 4) + 1]>>]

\* The token trimmed and upper-cased.
Normalised(token) == toUpperCase(trim(token))

\* <one of ACGT><one or more digits><one of ACGT>
WellFormed(t) ==
  /\ Len(t) >= 3
  /\ t[1] \in Nucleotides
  /\ t[Len(t)] \in Nucleotides
  /\ \A i \in 2..(Len(t) - 1) : t[i] \in Digit

RefOf(t) == t[1]

AltOf(t) == t[Len(t)]

\* The decimal value of the digits of a well-formed token.
PositionOf(t) == parseInt(SubSeq(t, 2, Len(t) - 1))

\* The token parses, is within bounds and names the base found there.
Validates(sequence, token) ==
  LET t == Normalised(token)
      p == PositionOf(t)
  IN  /\ WellFormed(t)
      /\ p >= 1
      /\ p <= Len(sequence)
      /\ sequence[p] = RefOf(t)

\* The flanks at 1-based position p, 'N' at the edges.
BeforeAt(sequence, p) == IF p > 1 THEN sequence[p - 1] ELSE "N"

AfterAt(sequence, p) == IF p < Len(sequence) THEN sequence[p + 1] ELSE "N"

\* before + '[' + ref + '>' + alt + ']' + after of a validating token.
ContextAt(sequence, token) ==
  LET t == Normalised(token)
      p == PositionOf(t)
  IN  <<BeforeAt(sequence, p), "[", RefOf(t), ">", AltOf(t), "]",
        AfterAt(sequence, p)>>

IsError(o) == "error" \in DOMAIN o

IsSuccess(o) == "context" \in DOMAIN o /\ ~IsError(o)

\* The sum of the counts of the given keys of a table.
RECURSIVE SumOver(_, _)
SumOver(counts, keys) ==
  IF keys = {} THEN 0
  ELSE LET ctx == CHOOSE k \in keys : TRUE
       IN  counts[ctx] + SumOver(counts, keys \ {ctx})

\* The sum of all the counts of a table (the keys mapped to 0 add nothing).
SumOfCounts(counts) ==
  SumOver(counts, {ctx \in DOMAIN counts : counts[ctx] # 0})

\* The catalog order lists the 192 canonical contexts, each exactly once.
CatalogOrderIsCanonical ==
  /\ {CatalogOrder[i] : i \in 1..192} = CanonicalContexts
  /\ Cardinality(CanonicalContexts) = 192

(***************************************************************************)
(* C1                                                                      *)
(***************************************************************************)
\* C1 as stated: for every pair of inputs, an empty parsed sequence included,
\* the CountTable holds every one of the 192 canonical contexts as a key,
\* each mapped to an integer >= 0.
C1_AllKeysAlways ==
  /\ CanonicalContexts \subseteq DOMAIN Counts
  /\ \A ctx \in CanonicalContexts : Counts[ctx] \in Nat

\* C1 amended: when the reference text parses to a non-empty sequence the
\* CountTable's keys are exactly the 192 canonical contexts, each mapped to an
\* integer >= 0; when it parses to the empty sequence the CountTable has no
\* key at all.
C1_KeysWhenSequence ==
  /\ CatalogOrderIsCanonical
  /\ IF ParsedSequence # <<>>
     THEN Counts \in [CanonicalContexts -> Nat]
     ELSE DOMAIN Counts = {}

C1_Witness ==
  /\ ParsedSequence # <<>>
  /\ \E ctx \in DOMAIN Counts : Counts[ctx] > 0
  /\ \E ctx \in DOMAIN Counts : Counts[ctx] = 0

(***************************************************************************)
(* C2                                                                      *)
(***************************************************************************)
\* C2 as stated: for every pair of inputs the outcomes are, in order, one per
\* non-empty trimmed comma-separated token, each carrying that token.
C2_OnePerTokenAlways ==
  LET tokens == Tokens
  IN  /\ Len(Outcomes) = Len(tokens)
      /\ \A i \in 1..Len(Outcomes) : Outcomes[i].original = tokens[i]

\* C2 amended: when the reference text parses to a non-empty sequence, the
\* outcomes are, in order, one per non-empty trimmed comma-separated token,
\* the i-th carrying the i-th token as its original; when it parses to the
\* empty sequence the outcomes list is empty whatever the mutations text.
C2_OnePerTokenWhenSequence ==
  LET tokens == Tokens
  IN  IF ParsedSequence # <<>>
      THEN /\ Len(Outcomes) = Len(tokens)
           /\ \A i \in 1..Len(Outcomes) : Outcomes[i].original = tokens[i]
      ELSE Outcomes = <<>>

C2_Witness ==
  /\ ParsedSequence # <<>>
  /\ Len(split(mutationsInput, ",")) = 2
  /\ Len(Outcomes) = 2
  /\ Outcomes[1].original # Outcomes[2].original
  /\ IsError(Outcomes[1])
  /\ IsSuccess(Outcomes[2])

(***************************************************************************)
(* C3                                                                      *)
(***************************************************************************)
\* C3 as stated: the sum of all counts is the number of tokens that validate
\* and whose context has no 'N' flank and ref # alt.
C3_SumCountsNoNFlank ==
  LET sequence == ParsedSequence
      tokens   == Tokens
  IN  SumOfCounts(Counts) =
        Cardinality({i \in 1..Len(tokens) :
          /\ Validates(sequence, tokens[i])
          /\ LET ctx == ContextAt(sequence, tokens[i])
             IN  ctx[1] # "N" /\ ctx[7] # "N" /\ ctx[3] # ctx[5]})

\* C3 amended: the sum of all counts is the number of tokens (with
\* multiplicity) that validate and whose context has both flanks among
\* A, C, G, T and ref # alt, that is, is one of the 192 canonical contexts.
C3_SumCountsCanonical ==
  LET sequence == ParsedSequence
      tokens   == Tokens
  IN  SumOfCounts(Counts) =
        Cardinality({i \in 1..Len(tokens) :
          /\ Validates(sequence, tokens[i])
          /\ LET ctx == ContextAt(sequence, tokens[i])
             IN  /\ ctx[1] \in Nucleotides
                 /\ ctx[7] \in Nucleotides
                 /\ ctx[3] # ctx[5]})

C3_Witness ==
  /\ Len(Tokens) = 2
  /\ Tokens[1] = Tokens[2]
  /\ \E ctx \in DOMAIN Counts : Counts[ctx] = 2

(***************************************************************************)
(* C4                                                                      *)
(***************************************************************************)
\* The 193 lines the claim describes, for the current CountTable.
C4_ExpectedLines ==
  LET catalog == CatalogOrder
      counts  == Counts
      keys    == DOMAIN counts
  IN  <<<<"C", "o", "n", "t", "e", "x", "t", "\t", "C", "o", "u", "n", "t">>>>
        \o [i \in 1..192 |->
              LET ctx == catalog[i]
              IN  ctx \o <<"\t">>
                    \o numberToString(IF ctx \in keys THEN counts[ctx] ELSE 0)]

\* C4: the TSV output is exactly 193 newline-joined lines: the header, then
\* one line context TAB count for each of the 192 canonical contexts, each
\* once, in the catalog order, the count being the CountTable value or 0 when
\* the key is missing.
C4_TsvIsTheTable ==
  LET lines == C4_ExpectedLines
  IN  /\ Len(lines) = 193
      /\ \A i \in 1..193 : lines[i] = SelectSeq(lines[i], LAMBDA c : c # "\n")
      /\ CatalogOrderIsCanonical
      /\ tsvOutput = join(lines, "\n")

C4_Witness ==
  /\ ParsedSequence # <<>>
  /\ \E ctx \in DOMAIN Counts : Counts[ctx] = 2
  /\ tsvOutput # <<>>

(***************************************************************************)
(* C5                                                                      *)
(***************************************************************************)
\* C5: with a non-empty parsed sequence a failing token never stops the batch
\* and never changes a count: every token has its own outcome, which is the
\* outcome of that token processed alone against the sequence, and the
\* CountTable is that of the same batch with the failing tokens removed.
C5_FailuresAreIsolated ==
  ParsedSequence # <<>> =>
    LET sequence == ParsedSequence
        tokens   == Tokens
        passing  == SelectSeq(tokens, LAMBDA t : Validates(sequence, t))
    IN  /\ Len(Outcomes) = Len(tokens)
        /\ \A i \in 1..Len(tokens) :
              /\ Outcomes[i] =
                   processMutations(sequence, <<tokens[i]>>).contextualised[1]
              /\ IsError(Outcomes[i]) <=> ~Validates(sequence, tokens[i])
        /\ Counts = processMutations(sequence, passing).counts

C5_Witness ==
  /\ ParsedSequence # <<>>
  /\ Len(Outcomes) = 2
  /\ IsError(Outcomes[1])
  /\ IsSuccess(Outcomes[2])
  /\ \E ctx \in DOMAIN Counts : Counts[ctx] = 1

(***************************************************************************)
(* C6                                                                      *)
(***************************************************************************)
\* The outcome the claim's precedence gives a token: the error message, or
\* <<>> for a success.
C6_ExpectedError(sequence, token) ==
  LET t == Normalised(token)
      p == PositionOf(t)
      L == Len(sequence)
  IN  IF ~WellFormed(t) THEN <<"Invalid mutation format">>
      ELSE IF p < 1 \/ p > L
           THEN <<"Position ", p, " out of range (sequence length: ", L, ")">>
      ELSE IF sequence[p] # RefOf(t)
           THEN <<"Reference mismatch at position ", p, ": expected ", RefOf(t),
                  ", found ", sequence[p]>>
      ELSE <<>>

\* C6: for a non-empty sequence every token's outcome is, in this precedence,
\* 'Invalid mutation format' iff the trimmed upper-cased token is not
\* base-digits-base; otherwise 'Position p out of range (sequence length: L)'
\* iff p < 1 or p > L; otherwise 'Reference mismatch at position p: expected
\* R, found B' iff sequence[p-1] = B differs from R; otherwise a success.
C6_ErrorPrecedence ==
  LET sequence == ParsedSequence
      tokens   == Tokens
  IN  sequence # <<>> =>
        /\ Len(Outcomes) = Len(tokens)
        /\ \A i \in 1..Len(tokens) :
              LET expected == C6_ExpectedError(sequence, tokens[i])
              IN  IF expected = <<>>
                  THEN IsSuccess(Outcomes[i])
                  ELSE IsError(Outcomes[i]) /\ Outcomes[i].error = expected

C6_Witness ==
  /\ ParsedSequence # <<>>
  /\ Len(Outcomes) = 2
  /\ IsError(Outcomes[1])
  /\ Outcomes[1].error[1] = "Position "
  /\ IsError(Outcomes[2])
  /\ Outcomes[2].error[1] = "Reference mismatch at position "

(***************************************************************************)
(* C7                                                                      *)
(***************************************************************************)
\* C7: a success at 1-based position p in a sequence of length L has before =
\* sequence[p-2] when p > 1 and 'N' when p = 1, after = sequence[p] when p < L
\* and 'N' when p = L (0-based indices), and context = before + '[' + ref +
\* '>' + alt + ']' + after; a validating token at the first or last position
\* is a success.
C7_FlanksAndContext ==
  ParsedSequence # <<>> =>
    LET sequence == ParsedSequence
        L        == Len(sequence)
        tokens   == Tokens
    IN  /\ Len(Outcomes) = Len(tokens)
        /\ \A i \in 1..Len(tokens) :
              /\ Validates(sequence, tokens[i]) => IsSuccess(Outcomes[i])
              /\ IsSuccess(Outcomes[i]) =>
                   LET o == Outcomes[i]
                       p == o.position
                       t == Normalised(tokens[i])
                   IN  /\ p \in 1..L
                       /\ p = PositionOf(t)
                       /\ o.ref = RefOf(t)
                       /\ o.alt = AltOf(t)
                       /\ o.before = (IF p > 1 THEN sequence[p - 1] ELSE "N")
                       /\ o.after = (IF p < L THEN sequence[p + 1] ELSE "N")
                       /\ o.context =
                            <<o.before, "[", o.ref, ">", o.alt, "]", o.after>>

C7_Witness ==
  /\ Len(ParsedSequence) = 2
  /\ Len(Outcomes) = 2
  /\ IsSuccess(Outcomes[1])
  /\ Outcomes[1].position = 1
  /\ Outcomes[1].before = "N"
  /\ IsSuccess(Outcomes[2])
  /\ Outcomes[2].position = 2
  /\ Outcomes[2].after = "N"

(***************************************************************************)
(* C8                                                                      *)
(***************************************************************************)
\* C8: a token that validates but whose context is not one of the 192
\* canonical strings is appended as a success carrying its context, with no
\* error, leaves every count as it was before it and adds no key.
C8_NonCanonicalNotCounted ==
  ParsedSequence # <<>> =>
    LET sequence == ParsedSequence
        tokens   == Tokens
    IN  /\ Len(Outcomes) = Len(tokens)
        /\ \A k \in 1..Len(tokens) :
              (/\ Validates(sequence, tokens[k])
               /\ ContextAt(sequence, tokens[k]) \notin CanonicalContexts)
              =>
              /\ IsSuccess(Outcomes[k])
              /\ Outcomes[k].context = ContextAt(sequence, tokens[k])
              /\ processMutations(sequence, SubSeq(tokens, 1, k)).counts
                   = processMutations(sequence, SubSeq(tokens, 1, k - 1)).counts
              /\ DOMAIN Counts = CanonicalContexts
              /\ Counts
                   = processMutations(sequence,
                       SubSeq(tokens, 1, k - 1)
                         \o SubSeq(tokens, k + 1, Len(tokens))).counts

\* A counted token followed by one that is not canonical only because ref = alt.
C8_Witness ==
  /\ ParsedSequence # <<>>
  /\ Len(Outcomes) = 2
  /\ IsSuccess(Outcomes[1])
  /\ Outcomes[1].context \in CanonicalContexts
  /\ IsSuccess(Outcomes[2])
  /\ Outcomes[2].ref = Outcomes[2].alt
  /\ Outcomes[2].before \in Nucleotides
  /\ Outcomes[2].after \in Nucleotides
  /\ SumOfCounts(Counts) = 1

(***************************************************************************)
(* C9                                                                      *)
(***************************************************************************)
\* C9 as stated: every success has a context X[R>A]Y with X, Y among
\* A, C, G, T, N and R, A among A, C, G, T, whatever the reference text holds.
C9_FlanksAreBasesOrN ==
  \A i \in 1..Len(Outcomes) :
    IsSuccess(Outcomes[i]) =>
      LET o == Outcomes[i]
      IN  /\ o.context = <<o.before, "[", o.ref, ">", o.alt, "]", o.after>>
          /\ o.before \in Nucleotides \cup {"N"}
          /\ o.after \in Nucleotides \cup {"N"}
          /\ o.ref \in Nucleotides
          /\ o.alt \in Nucleotides

\* C9 amended: every success has a context X[R>A]Y with R, A among A, C, G, T
\* and X, Y each either the sentinel 'N' or a character of the parsed
\* sequence, which keeps every character of the reference text (upper-cased,
\* not validated); so X and Y are among A, C, G, T, N when the parsed sequence
\* holds no other character.
C9_FlanksAreSequenceCharsOrN ==
  LET sequence == ParsedSequence
      chars    == {sequence[j] : j \in 1..Len(sequence)}
  IN  \A i \in 1..Len(Outcomes) :
        IsSuccess(Outcomes[i]) =>
          LET o == Outcomes[i]
          IN  /\ o.context = <<o.before, "[", o.ref, ">", o.alt, "]", o.after>>
              /\ o.before \in chars \cup {"N"}
              /\ o.after \in chars \cup {"N"}
              /\ o.ref \in Nucleotides
              /\ o.alt \in Nucleotides
              /\ chars \subseteq Nucleotides \cup {"N"} =>
                   /\ o.before \in Nucleotides \cup {"N"}
                   /\ o.after \in Nucleotides \cup {"N"}

C9_Witness ==
  \E i \in 1..Len(Outcomes) :
    /\ IsSuccess(Outcomes[i])
    /\ Outcomes[i].before \in Nucleotides
    /\ Outcomes[i].after \notin Nucleotides \cup {"N"}

(***************************************************************************)
(* C10                                                                     *)
(***************************************************************************)
\* C10: after any sequence of changes to the two inputs, the outcomes and the
\* CountTable are those of a from-scratch aggregation of the two current
\* input values, and the TSV is the rendering of that aggregation's
\* CountTable (tsvOutput is computeTsv of the counts the memo holds): nothing
\* of earlier input values survives.
C10_OutputsAreOfCurrentInputs ==
  LET fresh == computeResults(fastaInput, mutationsInput)
  IN  /\ results = fresh
      /\ tsvMemo = fresh.counts

\* Both inputs have been changed, the mutations last changed to a text whose
\* outcomes differ from those of the text before.
C10_Witness ==
  /\ fastaInput # <<>>
  /\ Len(split(mutationsInput, ",")) = 2
  /\ Len(Outcomes) = 2
  /\ \E ctx \in DOMAIN tsvMemo : tsvMemo[ctx] = 1

====
